---------------------------- MODULE Spec2Model ----------------------------
(***************************************************************************)
(* A model of the DICOM worklist SCP: the indexed dataset store            *)
(* (DICOMWorklistSCP::Worklist), its persistence operations, the status    *)
(* tracker (SCPStatus / ScopedStatus) and the mutex-guarded facade of      *)
(* DICOMWorklistSCP, as implemented in src/CDICOMWorklistSCP.cpp.          *)
(*                                                                         *)
(* A facade call is two steps of its thread: Begin (the lock_guard and the *)
(* ScopedStatus constructor) and End (the body, the ScopedStatus           *)
(* destructor and the release of the lock).  The file system, the clock    *)
(* and the network layer are the environment: their outcomes are chosen    *)
(* nondeterministically inside the step that consults them.                *)
(***************************************************************************)
EXTENDS Integers, FiniteSets, Sequences

\* ------------------------------------------------------------- bounds
MaxEntries == 4      \* entries the index workload keeps alive at once
FewEntries == 2      \* entries the persistence and template workloads keep alive
MaxClock == 1        \* the clock readings are 0 .. MaxClock
MaxErrors == 2       \* the environment fails only while lastErrors_ has room
MaxRequests == 1     \* the query hook is offered while requestCount_ < MaxRequests
NumThreads == 2      \* caller threads of the facade

Threads == 1 .. NumThreads
NoThread == 0
Clock == 0 .. MaxClock
TemplatePaths == {"", "template.dcm"}

\* The content of a DcmDataset: a fresh one is empty, or a clone of the template.
EmptyDataset == "empty"
TemplateDataset == "template"
NoFile == "nofile"
NullPtr == "nullptr"

VARIABLES
    indexMap_,       \* Worklist::indexMap_   : index -> Item
    freeIndexes_,    \* Worklist::freeIndexes_: set of recycled indexes
    templateFile_,   \* DICOMWorklistSCP::templateFile_
    serverStatus_,   \* DICOMWorklistSCP::serverStatus_ (SCPStatus)
    mutex_,          \* DICOMWorklistSCP::mutex_: the thread that owns it
    pc,              \* per thread: the facade call it is inside, with the
                     \* ScopedStatus object that lives on its stack
    files,           \* the data folder: file name -> content written
    clock,           \* std::chrono::system_clock::now(), in milliseconds
    alive,           \* the process (and its one DICOMWorklistSCP) exists
    last,            \* what the most recently finished call returned and did
    scn,             \* progress of the caller through the spec's scenario
    rem,             \* the remove that was the last store-mutating call
    largestCount,    \* the largest count() since the store was last empty
    env              \* the workload: what the callers and the environment do

vars == <<indexMap_, freeIndexes_, templateFile_, serverStatus_, mutex_, pc,
          files, clock, alive, last, scn, rem,
                   largestCount, env>>

\* ------------------------------------------------------------- helpers
Min(S) == CHOOSE x \in S : \A y \in S : x <= y

\* All orders in which a finite set can be enumerated (unordered_map and
\* directory_iterator promise no order).
RECURSIVE Orders(_)
Orders(S) ==
    IF S = {} THEN {<<>>}
    ELSE UNION {{<<x>> \o s : s \in Orders(S \ {x})} : x \in S}

Live == DOMAIN indexMap_

\* Worklist::Item::Item
Item(dataset, fileName, dirty) ==
    [dataset_ |-> dataset, fileName_ |-> fileName, dirty_ |-> dirty]

\* Worklist::count
count == Cardinality(DOMAIN indexMap_)

\* Worklist::operator[]: whether the lookup finds an Item (else nullptr)
Found(index) == index \in DOMAIN indexMap_

\* Worklist::newFileName: "<prefix>_<YYYYMMDD>_<HHMMSS>_<ms>.dcm" of the clock
\* reading; the name is a function of the reading and of nothing else.
newFileName(now) == <<"dataset", now, ".dcm">>

FileNames == {newFileName(c) : c \in Clock}

\* std::filesystem::exists(dataFolder_ + fileName)
exists(fileName) == files[fileName] # NoFile

\* SCPStatus::SCPStatus with its default arguments
SCPStatus(isRunning, requestCount, statusText, lastErrors) ==
    [isRunning_ |-> isRunning, requestCount_ |-> requestCount,
     statusText_ |-> statusText, lastErrors_ |-> lastErrors]

FreshStatus == SCPStatus(FALSE, 0, "Idle", <<>>)

\* error() keeping only the newest message: lastErrors_ = where the source
\* has lastErrors_ +=.
errorOverwrite(status, message) ==
    [status EXCEPT !.lastErrors_ = <<message>>]

\* SCPStatus::error: one timestamped message appended to lastErrors_
error(status, message) ==
    [status EXCEPT !.lastErrors_ = Append(@, message)]

\* SCPStatus::ToString: the rendered block (the log is cleared by the caller
\* of this operator, see EndStatus)
ToString(status) ==
    [Running |-> status.isRunning_,
     Requests |-> status.requestCount_,
     State |-> status.statusText_,
     LastErrors |-> IF status.lastErrors_ = <<>> THEN "None"
                    ELSE status.lastErrors_]

\* The activity name each facade call gives its ScopedStatus.
ActionName(op) ==
    CASE op = "setTemplateFile" -> "Template file setting"
      [] op = "addDataset" -> "Adding a dataset"
      [] op = "deleteDataset" -> "Deleting a dataset"
      [] op = "getDatasetCount" -> "Getting dataset count"
      [] op = "getDataset" -> "Getting dataset"
      [] op = "clearAllDatasets" -> "Clearing the list"
      [] op = "start" -> "Starting"
      [] op = "stop" -> "Stopping"
      [] op = "markDatasetDirty" -> "Marking dataset as dirty"
      [] op = "saveDirtyDatasets" -> "Saving dirty datasets"
      [] op = "saveDataset" -> "Saving a dataset by index"
      [] op = "saveAllDatasets" -> "Saving all datasets"
      [] op = "loadAllDatasets" -> "Loading all datasets from file"

\* ScopedStatus::ScopedStatus: the text it puts into the status
ProcessingText(actionName) ==
    IF actionName = "" THEN "Processing" ELSE "Processing: " \o actionName

\* Every call, stop included, constructing its ScopedStatus with the default
\* final text.
FinalArgDefault(op) == "None"

\* The finalStatusText argument of the ScopedStatus each call constructs;
\* only the calls in PassesFinal pass one, the others take the default.
FinalArg(op) == IF op = "stop" THEN "Idle" ELSE "None"
PassesFinal == {"stop"}

\* The texts a user of ScopedStatus hands it as final text.
FinalTexts == {"None", "Idle", "Done", ""}

\* ~ScopedStatus restoring the previous text whatever final text it holds.
ScopedStatusExitRestore(status, frame) ==
    [status EXCEPT !.statusText_ = frame.previousStatusText_]

\* ScopedStatus::~ScopedStatus
ScopedStatusExit(status, frame) ==
    [status EXCEPT !.statusText_ =
        IF frame.finalStatusText_ = "None" THEN frame.previousStatusText_
        ELSE frame.finalStatusText_]

\* ScopedStatus::changeStatus
changeStatus(frame, finalStatusText) ==
    [frame EXCEPT !.finalStatusText_ = finalStatusText, !.registered = TRUE]

\* A thread's frame: the call it is inside and the members of the
\* ScopedStatus on its stack; `registered` tells whether a final text was
\* handed to that ScopedStatus (to its constructor or to changeStatus).
IdleFrame ==
    [op |-> "idle", arg |-> 0, previousStatusText_ |-> "",
     finalStatusText_ |-> "None", registered |-> FALSE]

\* What a finished call handed back: its return value, its output parameter,
\* and the indexes whose files it tried to write (or, a call that an
\* exception ended, to delete) and failed to.
\* `final` is <<text>> when a final text was handed to the call's
\* ScopedStatus and <<>> when none was.
NoCall == [op |-> "none", arg |-> 0, ret |-> "none",
           out |-> "none", attempted |-> {}, failed |-> {}, final |-> <<>>]

Returned(frame, ret, out, attempted, failed) ==
    [op |-> frame.op, arg |-> frame.arg, ret |-> ret,
     out |-> out, attempted |-> attempted, failed |-> failed,
     final |-> IF frame.registered THEN <<frame.finalStatusText_>> ELSE <<>>]

\* Room left in the error log for the failures the environment may cause.
Room == env.errors - Len(serverStatus_.lastErrors_)

\* ------------------------------------------------------------- the store
\* getFreeIndex handing out the largest recycled index instead of the smallest.
getFreeIndexLargest(map, free) ==
    IF free = {}
    THEN [index |-> Cardinality(DOMAIN map), free |-> free]
    ELSE LET m == CHOOSE x \in free : \A y \in free : y <= x
         IN [index |-> m, free |-> free \ {m}]

\* getFreeIndex handing out a recycled index that it leaves in the reuse set.
getFreeIndexKeep(map, free) ==
    IF free = {}
    THEN [index |-> Cardinality(DOMAIN map), free |-> free]
    ELSE [index |-> Min(free), free |-> free]

\* getFreeIndex skipping one index when the reuse set is empty.
getFreeIndexPastEnd(map, free) ==
    IF free = {}
    THEN [index |-> Cardinality(DOMAIN map) + 1, free |-> free]
    ELSE [index |-> Min(free), free |-> free \ {Min(free)}]

\* Worklist::getFreeIndex on a given map and reuse set: the index handed
\* out and the reuse set it leaves.
getFreeIndex(map, free) ==
    IF free = {}
    THEN [index |-> Cardinality(DOMAIN map), free |-> free]
    ELSE [index |-> Min(free), free |-> free \ {Min(free)}]

\* indexMap_[id] = item
Insert(map, id, item) ==
    [i \in DOMAIN map \cup {id} |-> IF i = id THEN item ELSE map[i]]

\* indexMap_.erase(it)
Erase(map, id) == [i \in DOMAIN map \ {id} |-> map[i]]

EmptyMap == [i \in {} |-> Item(EmptyDataset, newFileName(0), FALSE)]

\* add taking the map's size as the new index, whatever the reuse set holds.
addAtSize(map, free, dataset, now) ==
    [index |-> Cardinality(DOMAIN map),
     map |-> Insert(map, Cardinality(DOMAIN map), Item(dataset, newFileName(now), TRUE)),
     free |-> free]

\* Worklist::add on a given map and reuse set
add(map, free, dataset, now) ==
    LET newItem == Item(dataset, newFileName(now), TRUE)
        got == getFreeIndex(map, free)
    IN [index |-> got.index, map |-> Insert(map, got.index, newItem),
        free |-> got.free]

\* remove that erases the entry and forgets to recycle its index.
removeNoRecycle(map, free, index) ==
    [map |-> Erase(map, index), free |-> free]

\* remove that recycles the index and forgets to erase the entry.
removeNoErase(map, free, index) ==
    [map |-> map, free |-> free \cup {index}]

\* Worklist::remove of an index that is in the map: the entry is erased and
\* the index goes to the reuse set.
remove(map, free, index) ==
    [map |-> Erase(map, index), free |-> free \cup {index}]

\* A lookup that finds nothing and reports it in the error log.
AbsentLogged(map, status, index) ==
    [map |-> map, status |-> error(status, <<"No dataset at: ", index>>),
     ret |-> FALSE]

\* remove, markDatasetDirty and saveDatasetInFile of an index that is not in
\* the map: `return false`, and nothing else.
Absent(map, status, index) ==
    [map |-> map, status |-> status, ret |-> FALSE]

\* Worklist::markDatasetDirty: item->dirty_ = true
MarkDirty(map, index) == [map EXCEPT ![index].dirty_ = TRUE]

\* A save that succeeded and leaves dirty_ as it was.
MarkCleanForgotten(map, index) == map

\* item->dirty_ = false, after a save that succeeded
MarkClean(map, index) == [map EXCEPT ![index].dirty_ = FALSE]

\* A saveFile that reports success and leaves an empty dataset in the file.
saveFileEmpty(fs, item) == [fs EXCEPT ![item.fileName_] = EmptyDataset]

\* DcmDataset::saveFile that succeeded: the file holds the dataset
saveFile(fs, item) == [fs EXCEPT ![item.fileName_] = item.dataset_]

\* saveDatasetInFile clearing dirty_ before it looks at the outcome.
saveDatasetInFileEager(map, fs, status, index, good) ==
    IF good
    THEN [map |-> MarkClean(map, index), fs |-> saveFile(fs, map[index]),
          status |-> status, ret |-> TRUE]
    ELSE [map |-> MarkClean(map, index), fs |-> fs,
          status |-> error(status, <<"Failed to save: ", map[index].fileName_>>),
          ret |-> FALSE]

\* Worklist::saveDatasetInFile of an index that is in the map; `good` is
\* the outcome of saveFile.
saveDatasetInFile(map, fs, status, index, good) ==
    IF good
    THEN [map |-> MarkClean(map, index), fs |-> saveFile(fs, map[index]),
          status |-> status, ret |-> TRUE]
    ELSE [map |-> map, fs |-> fs,
          status |-> error(status, <<"Failed to save: ", map[index].fileName_>>),
          ret |-> FALSE]

\* The save loop leaving at the first failure.
RECURSIVE SaveLoopFailFast(_, _, _)
SaveLoopFailFast(acc, order, failed) ==
    IF order = <<>> THEN acc
    ELSE LET id == Head(order)
             item == acc.map[id]
             tried == acc.attempted \cup {id}
         IN IF id \in failed
            THEN [acc EXCEPT
                    !.status = error(@, <<"Failed to save: ", item.fileName_>>),
                    !.success = FALSE,
                    !.attempted = tried]
            ELSE SaveLoopFailFast([acc EXCEPT
                                     !.map = MarkClean(@, id),
                                     !.fs = saveFile(@, item),
                                     !.attempted = tried],
                                  Tail(order), failed)

\* The loop of saveAllDatasetsInFile / saveDirtyDatasetsInFile over the
\* entries it does not skip, in the order the map yields them; `failed` are
\* the entries whose saveFile the environment fails.  acc carries the map,
\* the files, the status, the local `success` and the entries written to.
RECURSIVE SaveLoop(_, _, _)
SaveLoop(acc, order, failed) ==
    IF order = <<>> THEN acc
    ELSE LET id == Head(order)
             item == acc.map[id]
             tried == acc.attempted \cup {id}
         IN IF id \in failed
            THEN SaveLoop([acc EXCEPT
                             !.status = error(@, <<"Failed to save: ", item.fileName_>>),
                             !.success = FALSE,
                             !.attempted = tried],
                          Tail(order), failed)
            ELSE SaveLoop([acc EXCEPT
                             !.map = MarkClean(@, id),
                             !.fs = saveFile(@, item),
                             !.attempted = tried],
                          Tail(order), failed)

\* The skip test of saveDirtyDatasetsInFile with dirty_ negated once too often.
CleanTargets(map) == {id \in DOMAIN map : ~map[id].dirty_}

\* Which entries saveDirtyDatasetsInFile does not skip (line 561), and which
\* saveAllDatasetsInFile does not (line 532): dataset_ is never null.
DirtyTargets(map) == {id \in DOMAIN map : map[id].dirty_}
AllTargets(map) == DOMAIN map

\* The loop of Worklist::clear, in the order the map yields the entries.
\* `vanished`: entries whose file exists() saw but remove() found gone
\* (remove returns false); `thrower`: the entry at which remove() throws.
RECURSIVE ClearLoop(_, _, _, _, _, _)
ClearLoop(map, fs, status, order, vanished, thrower) ==
    IF order = <<>> THEN [fs |-> fs, status |-> status, thrown |-> FALSE]
    ELSE LET id == Head(order)
             name == map[id].fileName_
         IN IF fs[name] = NoFile
            THEN ClearLoop(map, fs, status, Tail(order), vanished, thrower)
            ELSE IF id = thrower
            THEN [fs |-> fs, status |-> status, thrown |-> TRUE]
            ELSE IF id \in vanished
            THEN ClearLoop(map, [fs EXCEPT ![name] = NoFile],
                           error(status, <<"Failed to remove file: ", name>>),
                           Tail(order), vanished, thrower)
            ELSE ClearLoop(map, [fs EXCEPT ![name] = NoFile], status,
                           Tail(order), vanished, thrower)

\* The load loop leaving at the first file that fails to load.
RECURSIVE LoadLoopFailFast(_, _, _, _, _, _)
LoadLoopFailFast(map, free, status, fs, order, bad) ==
    IF order = <<>> THEN [map |-> map, free |-> free, status |-> status]
    ELSE LET fileName == Head(order)
         IN IF fileName \in bad
            THEN [map |-> map, free |-> free,
                  status |-> error(status, <<"[Worklist] Failed to load: ", fileName>>)]
            ELSE LET got == getFreeIndex(map, free)
                 IN LoadLoopFailFast(
                       Insert(map, got.index, Item(fs[fileName], fileName, FALSE)),
                       got.free, status, fs, Tail(order), bad)

\* The loop of Worklist::loadAllDatasets over the regular files of the
\* folder, in the order the directory yields them; `bad` fail to load.
RECURSIVE LoadLoop(_, _, _, _, _, _)
LoadLoop(map, free, status, fs, order, bad) ==
    IF order = <<>> THEN [map |-> map, free |-> free, status |-> status]
    ELSE LET fileName == Head(order)
         IN IF fileName \in bad
            THEN LoadLoop(map, free,
                          error(status, <<"[Worklist] Failed to load: ", fileName>>),
                          fs, Tail(order), bad)
            ELSE LET got == getFreeIndex(map, free)
                 IN LoadLoop(Insert(map, got.index, Item(fs[fileName], fileName, FALSE)),
                             got.free, status, fs, Tail(order), bad)

\* ------------------------------------------------------------- the caller
\* The scenario of the specification, followed by the store-mutating calls
\* the callers make: from an empty store, add, add, remove(0), add.  scn is
\* the number of its calls made so far, Off once the callers left it.
Off == 0 - 1
ScnAfter(op, arg) ==
    CASE op = "addDataset" ->
            IF scn \in {0, 1, 3} THEN scn + 1 ELSE Off
      [] op = "deleteDataset" ->
            IF scn = 2 /\ arg = 0 THEN 3 ELSE Off
      [] op = "clearAllDatasets" -> 0
      [] OTHER -> scn

\* rem is <<k, n>> while remove(k), which succeeded on a store of n live
\* entries, is the last store-mutating call made, and <<>> otherwise.
RemAfter(op, arg, ret) ==
    CASE op = "deleteDataset" -> IF ret = TRUE THEN <<arg, count>> ELSE rem
      [] op \in {"addDataset", "clearAllDatasets"} -> <<>>
      [] OTHER -> rem

\* The int arguments the callers pass: every index the workload can make
\* live, and one that is never live.
Indexes == 0 .. env.entries

\* The largest value count() has taken since the store was last constructed
\* or cleared, after a call of `op` has finished: add() makes count() one
\* larger, clear() makes the store empty, no other call makes it grow.
LargestAfter(op) ==
    CASE op = "addDataset" ->
            IF count + 1 > largestCount THEN count + 1 ELSE largestCount
      [] op = "clearAllDatasets" -> 0
      [] OTHER -> largestCount

IndexOps == {"deleteDataset", "getDataset", "markDatasetDirty", "saveDataset"}
GuardedOps ==
    IndexOps \cup {"setTemplateFile", "addDataset", "getDatasetCount",
                   "clearAllDatasets", "start", "stop", "saveDirtyDatasets",
                   "saveAllDatasets"}
ArgsOf(op) ==
    IF op \in IndexOps THEN Indexes
    ELSE IF op = "setTemplateFile" THEN TemplatePaths
    ELSE {0}

\* ------------------------------------------------------------- workloads
\* A workload bounds what the callers and the environment do in one run of
\* the system: the facade calls the callers make (ops) and from how many
\* threads, how many entries they keep alive, how many failures the file
\* system produces before the log is next rendered (errors), whether the
\* clock advances, whether std::filesystem throws, whether the process is
\* restarted, and whether the network layer delivers commands.
StoreOps == {"addDataset", "deleteDataset", "clearAllDatasets"}
SaveOps == {"saveDataset", "saveDirtyDatasets", "saveAllDatasets"}

Workload(name, ops, callers, entries, errs, ticks, throws, restarts, hook) ==
    [name |-> name, ops |-> ops, callers |-> callers, entries |-> entries,
     errors |-> errs, ticks |-> ticks, throws |-> throws,
     restarts |-> restarts, hook |-> hook]

Workloads ==
    { Workload("index", StoreOps \cup {"saveAllDatasets"}, {1},
               MaxEntries, 0, FALSE, TRUE, TRUE, FALSE),
      Workload("persistence",
               SaveOps \cup {"addDataset", "markDatasetDirty"},
               {1}, FewEntries, MaxErrors, TRUE, FALSE, FALSE, FALSE),
      Workload("template", {"setTemplateFile", "addDataset", "saveDataset"},
               {1}, FewEntries, 1, TRUE, FALSE, TRUE, FALSE),
      Workload("guard", {"ScopedStatus", "start", "stop"},
               {1}, 0, 0, FALSE, FALSE, FALSE, FALSE),
      Workload("facade", GuardedOps \cup {"getStatus", "getDatasetCountNull"},
               Threads, 1, 1, FALSE, FALSE, FALSE, TRUE) }

\* ------------------------------------------------------------- the facade
\* A facade call that takes no lock.
no_lock(t) == TRUE

\* std::lock_guard<std::mutex> lock(mutex_): a thread gets past it only
\* while no thread owns the mutex.
lock_guard(t) == mutex_ = NoThread

\* The first two lines of every guarded facade call: the lock_guard and the
\* ScopedStatus constructor.
Enter(t) ==
    /\ alive
    /\ t \in env.callers
    /\ pc[t].op = "idle"
    /\ \E op \in GuardedOps \cap env.ops : \E arg \in ArgsOf(op) :
        /\ op = "addDataset" => count < env.entries
        /\ lock_guard(t)
        /\ mutex_' = t
        /\ pc' = [pc EXCEPT ![t] =
                    [op |-> op, arg |-> arg,
                     previousStatusText_ |-> serverStatus_.statusText_,
                     finalStatusText_ |-> FinalArg(op),
                     registered |-> op \in PassesFinal]]
        /\ serverStatus_' =
              [serverStatus_ EXCEPT !.statusText_ = ProcessingText(ActionName(op))]
    /\ last' = NoCall
    /\ UNCHANGED <<indexMap_, freeIndexes_, templateFile_, files, clock, alive, scn, rem,
                   largestCount, env>>

\* getStatus reading the status without taking the lock.
EnterStatusNoLock(t) ==
    /\ alive
    /\ t \in env.callers
    /\ "getStatus" \in env.ops
    /\ pc[t].op = "idle"
    /\ pc' = [pc EXCEPT ![t] = [IdleFrame EXCEPT !.op = "getStatus"]]
    /\ last' = NoCall
    /\ UNCHANGED <<indexMap_, freeIndexes_, templateFile_, serverStatus_, mutex_,
                   files, clock, alive, scn, rem,
                   largestCount, env>>

\* getStatus takes the lock and constructs no ScopedStatus.
EnterStatus(t) ==
    /\ alive
    /\ t \in env.callers
    /\ "getStatus" \in env.ops
    /\ pc[t].op = "idle"
    /\ lock_guard(t)
    /\ mutex_' = t
    /\ pc' = [pc EXCEPT ![t] = [IdleFrame EXCEPT !.op = "getStatus"]]
    /\ last' = NoCall
    /\ UNCHANGED <<indexMap_, freeIndexes_, templateFile_, serverStatus_, files,
                   clock, alive, scn, rem,
                   largestCount, env>>

\* A guarded call that returns and keeps the mutex locked.
LeaveHolding(t, frame, status, ret, out, attempted, failed) ==
    /\ serverStatus_' = ScopedStatusExit(status, frame)
    /\ mutex_' = mutex_
    /\ pc' = [pc EXCEPT ![t] = IdleFrame]
    /\ last' = Returned(frame, ret, out, attempted, failed)
    /\ scn' = ScnAfter(frame.op, frame.arg)
    /\ rem' = RemAfter(frame.op, frame.arg, ret)
    /\ largestCount' = LargestAfter(frame.op)

\* The end of a guarded call: ~ScopedStatus, then the lock is released and
\* the call returns.
Leave(t, frame, status, ret, out, attempted, failed) ==
    /\ serverStatus_' = ScopedStatusExit(status, frame)
    /\ mutex_' = NoThread
    /\ pc' = [pc EXCEPT ![t] = IdleFrame]
    /\ last' = Returned(frame, ret, out, attempted, failed)
    /\ scn' = ScnAfter(frame.op, frame.arg)
    /\ rem' = RemAfter(frame.op, frame.arg, ret)
    /\ largestCount' = LargestAfter(frame.op)

\* An exception of std::filesystem leaves the facade call and then the
\* extern "C" function that called it, where nothing catches it: the
\* process is terminated.  The files stay as they are.
Terminated(fs, call) ==
    /\ alive' = FALSE
    /\ files' = fs
    /\ indexMap_' = EmptyMap
    /\ freeIndexes_' = {}
    /\ templateFile_' = ""
    /\ serverStatus_' = FreshStatus
    /\ mutex_' = NoThread
    /\ pc' = [t \in Threads |-> IdleFrame]
    /\ last' = call
    /\ scn' = Off
    /\ rem' = <<>>
    /\ largestCount' = 0
    /\ UNCHANGED <<clock, env>>

\* DICOMWorklistSCP::setTemplateFile
setTemplateFile(t) ==
    /\ pc[t].op = "setTemplateFile"
    /\ \E present \in BOOLEAN :
        /\ pc[t].arg = "" => ~present
        /\ templateFile_' = pc[t].arg
        /\ Leave(t, pc[t], serverStatus_, present, "none", {}, {})
    /\ UNCHANGED <<indexMap_, freeIndexes_, files, clock, alive, env>>

\* DICOMWorklistSCP::addDataset
addDataset(t) ==
    /\ pc[t].op = "addDataset"
    /\ \E loaded \in BOOLEAN :
        LET newDataset == IF templateFile_ # "" /\ loaded
                          THEN TemplateDataset ELSE EmptyDataset
            r == add(indexMap_, freeIndexes_, newDataset, clock)
        IN /\ templateFile_ = "" => ~loaded
           /\ indexMap_' = r.map
           /\ freeIndexes_' = r.free
           /\ Leave(t, pc[t], serverStatus_, TRUE, r.index, {}, {})
    /\ UNCHANGED <<templateFile_, files, clock, alive, env>>

\* DICOMWorklistSCP::deleteDataset, with Worklist::remove
deleteDataset(t) ==
    /\ pc[t].op = "deleteDataset"
    /\ LET index == pc[t].arg IN
       IF ~Found(index)
       THEN LET r == Absent(indexMap_, serverStatus_, index)
            IN /\ indexMap_' = r.map
               /\ Leave(t, pc[t], r.status, r.ret, "none", {}, {})
               /\ UNCHANGED <<freeIndexes_, templateFile_, files, clock, alive, env>>
       ELSE LET name == indexMap_[index].fileName_ IN
            \/ /\ indexMap_' = remove(indexMap_, freeIndexes_, index).map
               /\ freeIndexes_' = remove(indexMap_, freeIndexes_, index).free
               /\ files' = IF exists(name) THEN [files EXCEPT ![name] = NoFile]
                           ELSE files
               /\ Leave(t, pc[t], serverStatus_, TRUE, "none", {}, {})
               /\ UNCHANGED <<templateFile_, clock, alive, env>>
            \/ /\ exists(name)
               /\ env.throws
               /\ Terminated(files, Returned(pc[t], "terminate", "none", {index}, {index}))

\* DICOMWorklistSCP::getDatasetCount with a valid output parameter
getDatasetCount(t) ==
    /\ pc[t].op = "getDatasetCount"
    /\ Leave(t, pc[t], serverStatus_, TRUE, count, {}, {})
    /\ UNCHANGED <<indexMap_, freeIndexes_, templateFile_, files, clock, alive, env>>

\* DICOMWorklistSCP::getDatasetCount(nullptr): false, before the lock
getDatasetCountNull(t) ==
    /\ alive
    /\ t \in env.callers
    /\ "getDatasetCountNull" \in env.ops
    /\ pc[t].op = "idle"
    /\ last' = Returned([IdleFrame EXCEPT !.op = "getDatasetCount", !.arg = NullPtr],
                        FALSE, "none", {}, {})
    /\ UNCHANGED <<indexMap_, freeIndexes_, templateFile_, serverStatus_, mutex_,
                   pc, files, clock, alive, scn, rem,
                   largestCount, env>>

\* DICOMWorklistSCP::getDataset
getDataset(t) ==
    /\ pc[t].op = "getDataset"
    /\ Leave(t, pc[t], serverStatus_,
             IF Found(pc[t].arg) THEN indexMap_[pc[t].arg].dataset_ ELSE NullPtr,
             "none", {}, {})
    /\ UNCHANGED <<indexMap_, freeIndexes_, templateFile_, files, clock, alive, env>>

\* DICOMWorklistSCP::clearAllDatasets, with Worklist::clear
clearAllDatasets(t) ==
    /\ pc[t].op = "clearAllDatasets"
    /\ \E order \in Orders(Live) :
       \E vanished \in SUBSET Live :
       \E thrower \in (IF env.throws THEN Live ELSE {}) \cup {Off} :
          /\ Cardinality(vanished) <= Room
          /\ LET r == ClearLoop(indexMap_, files, serverStatus_, order, vanished, thrower)
             IN IF r.thrown
                THEN Terminated(r.fs, Returned(pc[t], "terminate", "none",
                                               {thrower}, {thrower}))
                ELSE /\ indexMap_' = EmptyMap
                     /\ freeIndexes_' = {}
                     /\ files' = r.fs
                     /\ Leave(t, pc[t], r.status, TRUE, "none", {}, {})
                     /\ UNCHANGED <<templateFile_, clock, alive, env>>

\* start opening the port whether or not the server is running.
startAgain(t) ==
    /\ pc[t].op = "start"
    /\ \E good \in BOOLEAN :
         IF good
         THEN Leave(t, changeStatus(pc[t], "Listening"),
                    [serverStatus_ EXCEPT !.isRunning_ = TRUE],
                    TRUE, "accepting", {}, {})
         ELSE Leave(t, pc[t], serverStatus_, FALSE, "refused", {}, {})
    /\ UNCHANGED <<indexMap_, freeIndexes_, templateFile_, files, clock, alive, env>>

\* DICOMWorklistSCP::start; `good` is the outcome of openListenPort.  What
\* the call did with the network is handed back beside its return value:
\* "accepting" when it opened the port and detached the accept thread,
\* "refused" when openListenPort failed, "none" when it did not try.
start(t) ==
    /\ pc[t].op = "start"
    /\ IF serverStatus_.isRunning_
       THEN Leave(t, pc[t], serverStatus_, TRUE, "none", {}, {})
       ELSE \E good \in BOOLEAN :
            IF good
            THEN Leave(t, changeStatus(pc[t], "Listening"),
                       [serverStatus_ EXCEPT !.isRunning_ = TRUE],
                       TRUE, "accepting", {}, {})
            ELSE Leave(t, pc[t], serverStatus_, FALSE, "refused", {}, {})
    /\ UNCHANGED <<indexMap_, freeIndexes_, templateFile_, files, clock, alive, env>>

\* DICOMWorklistSCP::stop
stop(t) ==
    /\ pc[t].op = "stop"
    /\ IF ~serverStatus_.isRunning_
       THEN Leave(t, pc[t], serverStatus_, TRUE, "none", {}, {})
       ELSE Leave(t, pc[t], [serverStatus_ EXCEPT !.isRunning_ = FALSE],
                  TRUE, "none", {}, {})
    /\ UNCHANGED <<indexMap_, freeIndexes_, templateFile_, files, clock, alive, env>>

\* getStatus rendering the status and leaving lastErrors_ as it is.
getStatusKeepLog(t) ==
    /\ pc[t].op = "getStatus"
    /\ mutex_' = NoThread
    /\ pc' = [pc EXCEPT ![t] = IdleFrame]
    /\ last' = Returned(pc[t], TRUE, ToString(serverStatus_), {}, {})
    /\ UNCHANGED <<indexMap_, freeIndexes_, templateFile_, serverStatus_, files,
                   clock, alive, scn, rem,
                   largestCount, env>>

\* DICOMWorklistSCP::getStatus: ToString, which also clears lastErrors_
getStatus(t) ==
    /\ pc[t].op = "getStatus"
    /\ serverStatus_' = [serverStatus_ EXCEPT !.lastErrors_ = <<>>]
    /\ mutex_' = NoThread
    /\ pc' = [pc EXCEPT ![t] = IdleFrame]
    /\ last' = Returned(pc[t], TRUE, ToString(serverStatus_), {}, {})
    /\ UNCHANGED <<indexMap_, freeIndexes_, templateFile_, files, clock, alive, scn, rem,
                   largestCount, env>>

\* DICOMWorklistSCP::markDatasetDirty, with Worklist::markDatasetDirty
markDatasetDirty(t) ==
    /\ pc[t].op = "markDatasetDirty"
    /\ IF ~Found(pc[t].arg)
       THEN LET r == Absent(indexMap_, serverStatus_, pc[t].arg)
            IN /\ indexMap_' = r.map
               /\ Leave(t, pc[t], r.status, r.ret, "none", {}, {})
       ELSE /\ indexMap_' = MarkDirty(indexMap_, pc[t].arg)
            /\ Leave(t, pc[t], serverStatus_, TRUE, "none", {}, {})
    /\ UNCHANGED <<freeIndexes_, templateFile_, files, clock, alive, env>>

\* DICOMWorklistSCP::saveDataset, with Worklist::saveDatasetInFile
saveDataset(t) ==
    /\ pc[t].op = "saveDataset"
    /\ LET index == pc[t].arg IN
       IF ~Found(index)
       THEN LET r == Absent(indexMap_, serverStatus_, index)
            IN /\ indexMap_' = r.map
               /\ Leave(t, pc[t], r.status, r.ret, "none", {}, {})
               /\ UNCHANGED files
       ELSE \E good \in BOOLEAN :
            LET r == saveDatasetInFile(indexMap_, files, serverStatus_, index, good)
            IN /\ ~good => Room > 0
               /\ indexMap_' = r.map
               /\ files' = r.fs
               /\ Leave(t, pc[t], r.status, r.ret,
                        IF good THEN <<indexMap_[index].fileName_,
                                       indexMap_[index].dataset_>>
                        ELSE "none",
                        {index}, IF good THEN {} ELSE {index})
    /\ UNCHANGED <<freeIndexes_, templateFile_, clock, alive, env>>

\* The body shared by saveAllDatasets and saveDirtyDatasets: the loop over
\* `targets`, the entries the loop does not skip.
SaveTargets(t, targets) ==
    \E order \in Orders(targets) :
    \E failed \in SUBSET targets :
       LET r == SaveLoop([map |-> indexMap_, fs |-> files,
                          status |-> serverStatus_, success |-> TRUE,
                          attempted |-> {}], order, failed)
       IN /\ Cardinality(failed) <= Room
          /\ indexMap_' = r.map
          /\ files' = r.fs
          /\ Leave(t, pc[t], r.status, r.success, "none", r.attempted,
                   failed \cap r.attempted)

\* DICOMWorklistSCP::saveDirtyDatasets, with Worklist::saveDirtyDatasetsInFile
saveDirtyDatasets(t) ==
    /\ pc[t].op = "saveDirtyDatasets"
    /\ SaveTargets(t, DirtyTargets(indexMap_))
    /\ UNCHANGED <<freeIndexes_, templateFile_, clock, alive, env>>

\* DICOMWorklistSCP::saveAllDatasets, with Worklist::saveAllDatasetsInFile
saveAllDatasets(t) ==
    /\ pc[t].op = "saveAllDatasets"
    /\ SaveTargets(t, AllTargets(indexMap_))
    /\ UNCHANGED <<freeIndexes_, templateFile_, clock, alive, env>>

\* A use of ScopedStatus with arguments of the user's choosing, under the
\* lock as the facade uses it: the constructor, with or without a final text.
ScopedEnter(t) ==
    /\ alive
    /\ t \in env.callers
    /\ "ScopedStatus" \in env.ops
    /\ pc[t].op = "idle"
    /\ lock_guard(t)
    /\ \E actionName \in {"", "Working"} :
       \E explicit \in BOOLEAN :
       \E text \in FinalTexts :
          /\ ~explicit => text = "None"
          /\ pc' = [pc EXCEPT ![t] =
                      [op |-> "ScopedStatus", arg |-> actionName,
                       previousStatusText_ |-> serverStatus_.statusText_,
                       finalStatusText_ |-> text,
                       registered |-> explicit]]
          /\ serverStatus_' =
                [serverStatus_ EXCEPT !.statusText_ = ProcessingText(actionName)]
    /\ mutex_' = t
    /\ last' = NoCall
    /\ UNCHANGED <<indexMap_, freeIndexes_, templateFile_, files, clock, alive, scn, rem,
                   largestCount, env>>

\* ScopedStatus::changeStatus called inside the guarded scope
ScopedChange(t) ==
    /\ pc[t].op = "ScopedStatus"
    /\ \E text \in FinalTexts :
          pc' = [pc EXCEPT ![t] = changeStatus(pc[t], text)]
    /\ UNCHANGED <<indexMap_, freeIndexes_, templateFile_, serverStatus_, mutex_,
                   files, clock, alive, last, scn, rem,
                   largestCount, env>>

\* The guarded scope is left, by its end or by an early return, with
\* success or failure: ~ScopedStatus
ScopedExit(t) ==
    /\ pc[t].op = "ScopedStatus"
    /\ \E ret \in BOOLEAN : Leave(t, pc[t], serverStatus_, ret, "none", {}, {})
    /\ UNCHANGED <<indexMap_, freeIndexes_, templateFile_, files, clock, alive, env>>

\* What the network layer hands to the hook: no message (<<>>, a null
\* pointer) or one message with its command field, message id and class.
MessageIDs == {1, 2}
IncomingMessages ==
    {<<>>} \cup
    { <<[CommandField |-> c, MessageID |-> m, AffectedSOPClassUID |-> u]>> :
         c \in {"DIMSE_C_FIND_RQ", "DIMSE_C_ECHO_RQ"}, m \in MessageIDs,
         u \in {"FINDModalityWorklistInformationModel", "VerificationSOPClass"} }

\* A response that answers to no message id.
FindResponseNoId(request) ==
    [CommandField |-> "DIMSE_C_FIND_RSP",
     MessageIDBeingRespondedTo |-> 0,
     DimseStatus |-> "STATUS_Success",
     DataSetType |-> "DIMSE_DATASET_NULL",
     AffectedSOPClassUID |-> request.AffectedSOPClassUID]

\* The response handleIncomingCommand fills in for a C-FIND request
FindResponse(request) ==
    [CommandField |-> "DIMSE_C_FIND_RSP",
     MessageIDBeingRespondedTo |-> request.MessageID,
     DimseStatus |-> "STATUS_Success",
     DataSetType |-> "DIMSE_DATASET_NULL",
     AffectedSOPClassUID |-> request.AffectedSOPClassUID]

\* DICOMWorklistSCP::handleIncomingCommand, run by the accept thread that
\* start() detached: it takes no lock.  `out` is what the hook itself hands
\* to sendDIMSEMessage; any other command goes to the base class.
handleIncomingCommand ==
    /\ alive
    /\ env.hook
    /\ serverStatus_.isRunning_
    /\ serverStatus_.requestCount_ < MaxRequests
    /\ \E incomingMsg \in IncomingMessages :
        /\ serverStatus_' = [serverStatus_ EXCEPT !.requestCount_ = @ + 1]
        /\ last' = [NoCall EXCEPT
                       !.op = "handleIncomingCommand",
                       !.arg = incomingMsg,
                       !.ret = IF incomingMsg = <<>> THEN "EC_IllegalCall"
                               ELSE IF incomingMsg[1].CommandField = "DIMSE_C_FIND_RQ"
                               THEN "sendDIMSEMessage"
                               ELSE "DcmSCP::handleIncomingCommand",
                       !.out = IF incomingMsg # <<>>
                                  /\ incomingMsg[1].CommandField = "DIMSE_C_FIND_RQ"
                               THEN <<FindResponse(incomingMsg[1])>>
                               ELSE <<>>]
    /\ UNCHANGED <<indexMap_, freeIndexes_, templateFile_, mutex_, pc, files,
                   clock, alive, scn, rem,
                   largestCount, env>>

\* ------------------------------------------------------------- the process
\* DICOMWorklistSCP::DICOMWorklistSCP in a new process: fresh members, then
\* loadAllDatasets() under the lock and a ScopedStatus.
Create ==
    /\ ~alive
    /\ env.restarts
    /\ \E order \in Orders({f \in FileNames : exists(f)}) :
       \E bad \in SUBSET {f \in FileNames : exists(f)} :
          LET frame == [op |-> "loadAllDatasets", arg |-> 0,
                        previousStatusText_ |-> FreshStatus.statusText_,
                        finalStatusText_ |-> FinalArg("loadAllDatasets"),
                        registered |-> FALSE]
              entered == [FreshStatus EXCEPT !.statusText_ =
                             ProcessingText(ActionName("loadAllDatasets"))]
              r == LoadLoop(EmptyMap, {}, entered, files, order, bad)
          IN /\ Cardinality(bad) <= env.errors
             /\ indexMap_' = r.map
             /\ freeIndexes_' = r.free
             /\ serverStatus_' = ScopedStatusExit(r.status, frame)
             /\ last' = Returned(frame, Cardinality(DOMAIN r.map) > 0,
                                 "none", {f \in FileNames : exists(f)}, bad)
             /\ scn' = IF DOMAIN r.map = {} THEN 0 ELSE Off
             /\ rem' = <<>>
             /\ largestCount' = Cardinality(DOMAIN r.map)
    /\ alive' = TRUE
    /\ UNCHANGED <<templateFile_, mutex_, pc, files, clock, env>>

\* What is known of the call that finished last once the process has ended.
AtExit(call) == [call EXCEPT !.op = "exit after " \o @]

\* The process ends while no call is in progress (main returns); the object
\* is never deleted, so no destructor runs.
Exit ==
    /\ alive
    /\ env.restarts
    /\ \A t \in Threads : pc[t].op = "idle"
    /\ Terminated(files, AtExit(last))

\* Time passes.
Tick ==
    /\ env.ticks
    /\ clock < MaxClock
    /\ clock' = clock + 1
    /\ UNCHANGED <<indexMap_, freeIndexes_, templateFile_, serverStatus_, mutex_,
                   pc, files, alive, last, scn, rem,
                   largestCount, env>>

\* ------------------------------------------------------------- specification
\* The state after construction in an empty data folder.
Init ==
    /\ indexMap_ = EmptyMap
    /\ freeIndexes_ = {}
    /\ templateFile_ = ""
    /\ serverStatus_ = FreshStatus
    /\ mutex_ = NoThread
    /\ pc = [t \in Threads |-> IdleFrame]
    /\ files = [f \in FileNames |-> NoFile]
    /\ clock = 0
    /\ alive = TRUE
    /\ last = NoCall
    /\ scn = 0
    /\ largestCount = 0
    /\ rem = <<>>
    /\ env \in Workloads

Next ==
    \/ \E t \in Threads : Enter(t)
    \/ \E t \in Threads : EnterStatus(t)
    \/ \E t \in Threads : setTemplateFile(t)
    \/ \E t \in Threads : addDataset(t)
    \/ \E t \in Threads : deleteDataset(t)
    \/ \E t \in Threads : getDatasetCount(t)
    \/ \E t \in Threads : getDatasetCountNull(t)
    \/ \E t \in Threads : getDataset(t)
    \/ \E t \in Threads : clearAllDatasets(t)
    \/ \E t \in Threads : start(t)
    \/ \E t \in Threads : stop(t)
    \/ \E t \in Threads : getStatus(t)
    \/ \E t \in Threads : markDatasetDirty(t)
    \/ \E t \in Threads : saveDataset(t)
    \/ \E t \in Threads : saveDirtyDatasets(t)
    \/ \E t \in Threads : saveAllDatasets(t)
    \/ \E t \in Threads : ScopedEnter(t)
    \/ \E t \in Threads : ScopedChange(t)
    \/ \E t \in Threads : ScopedExit(t)
    \/ handleIncomingCommand
    \/ Create
    \/ Exit
    \/ Tick

Spec == Init /\ [][Next]_vars

\* ------------------------------------------------------------- properties
\* Thread t finishes the facade call `op` in this step.
Ends(t, op) == pc[t].op = op /\ pc'[t].op = "idle" /\ alive'
EndsAny(op) == \E t \in Threads : Ends(t, op)
EndsAt(op, index) == \E t \in Threads : Ends(t, op) /\ pc[t].arg = index
Loads == ~alive /\ alive'

Dirty(map) == {i \in DOMAIN map : map[i].dirty_}
NameOf(map, ids) == {map[i].fileName_ : i \in ids}

\* C1  Index uniqueness.  The index add() hands out is not a key of the map
\* when it is assigned: the map gains exactly that key and every entry it
\* held stays as it was.  loadAllDatasets gives every file that loads a key
\* of its own: the map holds as many entries as files loaded.
C1_IndexFresh ==
    [][ /\ EndsAny("addDataset") =>
            /\ last'.out \notin DOMAIN indexMap_
            /\ DOMAIN indexMap_' = DOMAIN indexMap_ \cup {last'.out}
            /\ \A i \in DOMAIN indexMap_ : indexMap_'[i] = indexMap_[i]
        /\ Loads =>
            /\ Cardinality(DOMAIN indexMap_') =
                  Cardinality(last'.attempted \ last'.failed)
            /\ NameOf(indexMap_', DOMAIN indexMap_') = last'.attempted \ last'.failed
      ]_vars

\* An add() reused index 1 between the live entries 0 and 2.
C1_Witness ==
    /\ last.op = "addDataset" /\ last.out = 1
    /\ DOMAIN indexMap_ = {0, 1, 2}

\* C2  add() succeeds and returns the smallest member of freeIndexes_ when
\* there is one, taking it out of the set, and count() as it was otherwise.
\* From an empty store: add() gives 0, add() gives 1, remove(0) succeeds,
\* add() gives 0 and count() is 2.
C2_AddSmallestFree ==
    [][ /\ EndsAny("addDataset") =>
            /\ last'.ret = TRUE
            /\ IF freeIndexes_ # {}
               THEN /\ last'.out \in freeIndexes_
                    /\ \A j \in freeIndexes_ : last'.out <= j
                    /\ freeIndexes_' = freeIndexes_ \ {last'.out}
               ELSE /\ last'.out = count
                    /\ freeIndexes_' = {}
        /\ (scn = 0 /\ scn' = 1) => last'.out = 0
        /\ (scn = 1 /\ scn' = 2) => last'.out = 1
        /\ (scn = 2 /\ scn' = 3) => last'.ret = TRUE
        /\ (scn = 3 /\ scn' = 4) => (last'.out = 0 /\ count' = 2)
      ]_vars

\* The scenario was run to its end.
C2_Witness == scn = 4 /\ last.op = "addDataset"

\* C3 as claimed: remove(k) succeeded on n live entries, k < n-1, and add()
\* is the next store-mutating call: that add() returns k.
C3_AddReturnsRemoved ==
    [][ (EndsAny("addDataset") /\ rem # <<>> /\ rem[1] < rem[2] - 1)
            => last'.out = rem[1] ]_vars

\* C3 amended: that add() returns the smallest free index, which is at most
\* k and so less than n; it is k exactly when no smaller index was free.
C3_AddReturnsAtMostRemoved ==
    [][ (EndsAny("addDataset") /\ rem # <<>> /\ rem[1] < rem[2] - 1) =>
            /\ last'.out <= rem[1]
            /\ last'.out < rem[2]
            /\ last'.out \in freeIndexes_
            /\ \A j \in freeIndexes_ : last'.out <= j
            /\ (last'.out = rem[1]) <=> ~(\E j \in freeIndexes_ : j < rem[1])
      ]_vars

\* remove(1) succeeded on three live entries while index 0 was free, and
\* the add() that follows it is under way.
C3_Witness ==
    /\ rem = <<1, 3>>
    /\ freeIndexes_ = {0, 1}
    /\ \E t \in Threads : pc[t].op = "addDataset"

\* C4  freeIndexes_ and the keys of indexMap_ are disjoint.
C4_FreeDisjointLive == freeIndexes_ \cap DOMAIN indexMap_ = {}

\* An index is free between two live ones.
C4_Witness == freeIndexes_ = {1} /\ DOMAIN indexMap_ = {0, 2}

\* C5  At most one facade call is between its lock acquisition and its
\* return, and that call's thread owns the mutex; the store and the status
\* text, running flag and error log change only in a step of the owner.
C5_OneAtATime ==
    /\ [](/\ Cardinality({t \in Threads : pc[t].op # "idle"}) <= 1
          /\ \A t \in Threads : pc[t].op # "idle" => mutex_ = t)
    /\ [][ ( \/ indexMap_' # indexMap_
             \/ freeIndexes_' # freeIndexes_
             \/ templateFile_' # templateFile_
             \/ serverStatus_'.statusText_ # serverStatus_.statusText_
             \/ serverStatus_'.isRunning_ # serverStatus_.isRunning_
             \/ serverStatus_'.lastErrors_ # serverStatus_.lastErrors_ )
           => \/ alive' # alive
              \/ \E t \in Threads :
                    /\ pc'[t] # pc[t]
                    /\ mutex_ = t \/ mutex_' = t
                    /\ \A u \in Threads \ {t} : pc[u].op = "idle"
         ]_vars

\* One of two caller threads is inside saveAllDatasets, after the other
\* thread's call returned.
C5_Witness ==
    /\ env.callers = Threads
    /\ pc[2].op = "saveAllDatasets" /\ mutex_ = 2
    /\ pc[1].op = "idle"
    /\ DOMAIN indexMap_ # {}

\* C6  After add() the new entry is dirty; after a save that succeeded for
\* an entry, by saveDataset, saveAllDatasets or saveDirtyDatasets, the entry
\* is not dirty; and the dirty flag of an entry changes in no other way,
\* but that markDatasetDirty sets it.
C6_DirtyFlag ==
    [][ /\ EndsAny("addDataset") => indexMap_'[last'.out].dirty_
        /\ \A op \in SaveOps : EndsAny(op) =>
              \A i \in last'.attempted \ last'.failed : ~indexMap_'[i].dirty_
        /\ (alive /\ alive') =>
              \A i \in DOMAIN indexMap_ \cap DOMAIN indexMap_' :
                 indexMap_'[i].dirty_ # indexMap_[i].dirty_ =>
                    IF indexMap_'[i].dirty_
                    THEN EndsAt("markDatasetDirty", i)
                    ELSE /\ \E op \in SaveOps : EndsAny(op)
                         /\ i \in last'.attempted \ last'.failed
      ]_vars

\* A bulk save cleared one entry and left another, whose write failed, dirty.
C6_Witness ==
    /\ last.op \in {"saveAllDatasets", "saveDirtyDatasets"}
    /\ \E i \in last.attempted \ last.failed : ~indexMap_[i].dirty_
    /\ \E i \in last.failed : indexMap_[i].dirty_

\* C7  saveDataset(index) of a live entry whose write fails returns false,
\* appends exactly one error, and leaves the entry (dirty flag, file name),
\* the rest of the map and the reuse set as they were.
C7_SaveOneFailure ==
    [][ (EndsAny("saveDataset") /\ last'.failed # {}) =>
            /\ last'.ret = FALSE
            /\ Len(serverStatus_'.lastErrors_) = Len(serverStatus_.lastErrors_) + 1
            /\ \A k \in 1 .. Len(serverStatus_.lastErrors_) :
                  serverStatus_'.lastErrors_[k] = serverStatus_.lastErrors_[k]
            /\ indexMap_' = indexMap_
            /\ freeIndexes_' = freeIndexes_
      ]_vars

\* A failed saveDataset of a dirty entry next to a clean one.
C7_Witness ==
    /\ last.op = "saveDataset" /\ last.failed # {} /\ last.ret = FALSE
    /\ \A i \in last.failed : indexMap_[i].dirty_
    /\ \E j \in DOMAIN indexMap_ : ~indexMap_[j].dirty_

\* An operation that touches entry i ends in this step.
Touches(i) ==
    \/ ~(alive /\ alive')
    \/ EndsAt("saveDataset", i) \/ EndsAt("deleteDataset", i)
    \/ EndsAny("saveAllDatasets") \/ EndsAny("saveDirtyDatasets")
    \/ EndsAny("clearAllDatasets")

\* C8  markDatasetDirty(i) of a live entry returns true and sets its dirty
\* flag; the flag stays set until an operation touches the entry; and
\* saveDirtyDatasets tries to write every live dirty entry, clearing the
\* flag of each one whose write succeeds.
C8_MarkedIsSaved ==
    [][ /\ \A i \in DOMAIN indexMap_ : EndsAt("markDatasetDirty", i) =>
              /\ last'.ret = TRUE
              /\ i \in DOMAIN indexMap_' /\ indexMap_'[i].dirty_
        /\ \A i \in Dirty(indexMap_) : ~Touches(i) =>
              i \in Dirty(indexMap_')
        /\ EndsAny("saveDirtyDatasets") =>
              \A i \in Dirty(indexMap_) :
                 /\ i \in last'.attempted
                 /\ i \notin last'.failed => ~indexMap_'[i].dirty_
      ]_vars

\* saveDirtyDatasets is under way over a dirty entry whose file, which no
\* other entry names, exists: the entry was saved and marked dirty since.
C8_Witness ==
    /\ \E t \in Threads : pc[t].op = "saveDirtyDatasets"
    /\ \E i \in Dirty(indexMap_) :
          /\ exists(indexMap_[i].fileName_)
          /\ \A j \in DOMAIN indexMap_ \ {i} :
                indexMap_[j].fileName_ # indexMap_[i].fileName_

\* C9 as claimed: saveDirtyDatasets writes no file of an entry that is not
\* dirty: the file of such an entry is none of the files written, it exists
\* or not as before with the content it had, and the entry stays not dirty.
C9_SaveDirtyLeavesClean ==
    [][ EndsAny("saveDirtyDatasets") =>
            \A j \in DOMAIN indexMap_ \ Dirty(indexMap_) :
               /\ indexMap_[j].fileName_ \notin NameOf(indexMap_, last'.attempted)
               /\ files'[indexMap_[j].fileName_] = files[indexMap_[j].fileName_]
               /\ j \in DOMAIN indexMap_' /\ ~indexMap_'[j].dirty_
      ]_vars

\* C10  saveAllDatasets tries to write every live entry and
\* saveDirtyDatasets every live dirty one, failures or not; each failure
\* appends one error; every entry whose write succeeded has its file; and
\* the call returns true exactly when no write failed.
C10_BulkSave ==
    [][ /\ EndsAny("saveAllDatasets") => last'.attempted = DOMAIN indexMap_
        /\ EndsAny("saveDirtyDatasets") => last'.attempted = Dirty(indexMap_)
        /\ (EndsAny("saveAllDatasets") \/ EndsAny("saveDirtyDatasets")) =>
              /\ last'.failed \subseteq last'.attempted
              /\ Len(serverStatus_'.lastErrors_) =
                    Len(serverStatus_.lastErrors_) + Cardinality(last'.failed)
              /\ \A i \in last'.attempted \ last'.failed :
                    files'[indexMap_[i].fileName_] # NoFile
              /\ last'.ret = (last'.failed = {})
      ]_vars

\* saveAllDatasets returned false after one write failed and another,
\* of an entry that had no file, succeeded.
C10_Witness ==
    /\ last.op = "saveAllDatasets" /\ last.ret = FALSE
    /\ last.failed # {} /\ last.attempted \ last.failed # {}
    /\ \E i \in last.failed : files[indexMap_[i].fileName_] = NoFile

\* C11  remove, markDatasetDirty and saveDatasetInFile of an index that is
\* not live return false and getDataset of it returns nullptr; the call
\* returns, appends nothing to the error log, and leaves the map (entries,
\* dirty flags, file names), the reuse set and every file as they were.
C11_NotLive ==
    [][ \A t \in Threads :
          (pc[t].op \in IndexOps /\ pc'[t].op = "idle"
              /\ pc[t].arg \notin DOMAIN indexMap_) =>
             /\ alive'
             /\ last'.op = pc[t].op /\ last'.arg = pc[t].arg
             /\ IF pc[t].op = "getDataset" THEN last'.ret = NullPtr
                                           ELSE last'.ret = FALSE
             /\ serverStatus_'.lastErrors_ = serverStatus_.lastErrors_
             /\ indexMap_' = indexMap_
             /\ freeIndexes_' = freeIndexes_
             /\ files' = files
      ]_vars

\* markDatasetDirty of an index that is not live returned false beside a
\* live entry that is clean and has its file.
C11_Witness ==
    /\ last.op = "markDatasetDirty" /\ last.ret = FALSE
    /\ last.arg \notin DOMAIN indexMap_
    /\ \E i \in DOMAIN indexMap_ :
          ~indexMap_[i].dirty_ /\ exists(indexMap_[i].fileName_)

\* C12 as claimed: remove of a live index returns true; afterwards the index
\* is no key of the map and is in the reuse set, count() is one less, the
\* entry's file does not exist, and every other entry is as it was.
C12_RemoveLive ==
    [][ \A t \in Threads :
          (pc[t].op = "deleteDataset" /\ pc'[t].op = "idle"
              /\ pc[t].arg \in DOMAIN indexMap_) =>
             /\ alive'
             /\ last'.ret = TRUE
             /\ pc[t].arg \notin DOMAIN indexMap_'
             /\ pc[t].arg \in freeIndexes_'
             /\ Cardinality(DOMAIN indexMap_') = Cardinality(DOMAIN indexMap_) - 1
             /\ files'[indexMap_[pc[t].arg].fileName_] = NoFile
             /\ \A j \in DOMAIN indexMap_ \ {pc[t].arg} :
                   j \in DOMAIN indexMap_' /\ indexMap_'[j] = indexMap_[j]
      ]_vars

\* C13 as claimed: remove of a live index whose file could not be deleted
\* still returns true with the entry erased and the index recycled, and
\* appends the failure to the error log.
C13_RemoveFailureLogged ==
    [][ \A t \in Threads :
          (pc[t].op = "deleteDataset" /\ pc'[t].op = "idle"
              /\ pc[t].arg \in DOMAIN indexMap_
              /\ last'.failed # {}) =>
             /\ alive'
             /\ last'.ret = TRUE
             /\ pc[t].arg \notin DOMAIN indexMap_'
             /\ pc[t].arg \in freeIndexes_'
             /\ Len(serverStatus_'.lastErrors_) = Len(serverStatus_.lastErrors_) + 1
      ]_vars

\* C14 as claimed: clear always returns true and leaves no entry and an
\* empty reuse set; no file of an entry is left, but one whose deletion
\* failed, which is in the error log; and the add() that follows returns 0.
C14_ClearBestEffort ==
    [][ /\ \A t \in Threads :
             (pc[t].op = "clearAllDatasets" /\ pc'[t].op = "idle") =>
                /\ alive'
                /\ last'.ret = TRUE
                /\ DOMAIN indexMap_' = {}
                /\ freeIndexes_' = {}
                /\ \A i \in DOMAIN indexMap_ :
                      \/ files'[indexMap_[i].fileName_] = NoFile
                      \/ Len(serverStatus_'.lastErrors_) > Len(serverStatus_.lastErrors_)
        /\ (EndsAny("addDataset") /\ DOMAIN indexMap_ = {} /\ scn = 0) =>
              last'.out = 0
      ]_vars

\* C15  getStatus reads and clears the error log: it renders every error
\* recorded since the log was last cleared, or "None" when there is none,
\* and leaves the log empty; between two getStatus calls the log only grows,
\* by the errors recorded.  So a getStatus that follows a getStatus with no
\* error recorded in between renders "None".
C15_ReadAndClear ==
    [][ /\ EndsAny("getStatus") =>
            /\ last'.ret = TRUE
            /\ IF serverStatus_.lastErrors_ = <<>>
               THEN last'.out.LastErrors = "None"
               ELSE serverStatus_.lastErrors_ = last'.out.LastErrors
            /\ serverStatus_'.lastErrors_ = <<>>
        /\ serverStatus_'.lastErrors_ # serverStatus_.lastErrors_ =>
            \/ /\ serverStatus_'.lastErrors_ = <<>>
               /\ EndsAny("getStatus") \/ ~alive'
            \/ /\ Len(serverStatus_'.lastErrors_) > Len(serverStatus_.lastErrors_)
               /\ SubSeq(serverStatus_'.lastErrors_, 1, Len(serverStatus_.lastErrors_))
                     = serverStatus_.lastErrors_
      ]_vars

\* A getStatus rendered an error that a failed save had recorded, and the
\* log is empty after it.
C15_Witness ==
    /\ last.op = "getStatus"
    /\ \E f \in FileNames : <<<<"Failed to save: ", f>>>> = last.out.LastErrors
    /\ serverStatus_.lastErrors_ = <<>>

\* A guarded scope of thread t is left in this step.
GuardExits(t) ==
    /\ pc[t].op \notin {"idle", "getStatus"}
    /\ pc'[t].op = "idle"
    /\ alive'

\* C16 as claimed: when a guarded scope is left, statusText_ is the final
\* text handed to the guard if one was, whatever the text, and otherwise
\* the statusText_ that was current when the guard was constructed.
C16_GuardExitAnyText ==
    [][ \A t \in Threads : GuardExits(t) =>
          serverStatus_'.statusText_ =
             IF last'.final # <<>> THEN last'.final[1]
             ELSE pc[t].previousStatusText_
      ]_vars

\* C16 amended: "None" is the guard's value for "no final text".  When a
\* guarded scope is left, statusText_ is the final text handed to the guard
\* if one other than "None" was, and otherwise the statusText_ that was
\* current when the guard was constructed.
C16_GuardExit ==
    [][ \A t \in Threads : GuardExits(t) =>
          serverStatus_'.statusText_ =
             IF last'.final # <<>> /\ last'.final[1] # "None" THEN last'.final[1]
             ELSE pc[t].previousStatusText_
      ]_vars

\* A guard that was handed the final text "None" was destroyed while the
\* server was running: the text of before the guard is back.
C16_Witness ==
    /\ last.op = "ScopedStatus" /\ last.final = <<"None">>
    /\ serverStatus_.statusText_ = "Listening"

\* C17 as claimed: the step of a guarded facade call that constructs its
\* ScopedStatus raises requestCount_ by one, and so does the whole call.
C17_GuardCountsRequest ==
    [][ \A t \in Threads :
          /\ (pc[t].op = "idle" /\ pc'[t].op \in GuardedOps) =>
                serverStatus_'.requestCount_ = serverStatus_.requestCount_ + 1
          /\ (pc[t].op \in GuardedOps /\ pc'[t].op = "idle" /\ alive') =>
                serverStatus_'.requestCount_ = serverStatus_.requestCount_
      ]_vars

\* The in-progress texts a ScopedStatus puts into statusText_.
ProcessingTexts ==
    {ProcessingText(ActionName(op)) : op \in GuardedOps \cup {"loadAllDatasets"}}
       \cup {ProcessingText(a) : a \in {"", "Working"}}

\* C18 as claimed: while a guarded call of one thread is in progress,
\* statusText_ is its in-progress text and a getStatus call of another
\* caller thread can go ahead and take its snapshot.
C18_StatusSeesInProgress ==
    \A u \in Threads : pc[u].op \in GuardedOps =>
       /\ serverStatus_.statusText_ = ProcessingText(ActionName(pc[u].op))
       /\ \A t \in env.callers \ {u} :
             "getStatus" \in env.ops => ENABLED EnterStatus(t)

\* C18 amended: getStatus never observes an in-progress text.  It takes the
\* lock every guarded call holds from before its ScopedStatus is constructed
\* until after it is destroyed: while a getStatus is inside, no guarded call
\* is, statusText_ is no "Processing" text, and neither is the State that
\* a getStatus rendered.
C18_StatusNeverInProgress ==
    /\ \A t \in Threads : pc[t].op = "getStatus" =>
          /\ \A u \in Threads \ {t} : pc[u].op = "idle"
          /\ serverStatus_.statusText_ \notin ProcessingTexts
    /\ last.op = "getStatus" => last.out.State \notin ProcessingTexts

\* With two caller threads, a getStatus rendered the text "Listening" that
\* start left, after an incoming command was counted.
C18_Witness ==
    /\ env.callers = Threads
    /\ last.op = "getStatus"
    /\ last.out.State = "Listening" /\ last.out.Requests = 1

\* C19  start while the server is running returns true without opening the
\* port or detaching an accept thread again, and leaves the running flag,
\* the store and the status text of before the call; stop while it is not
\* running returns true and leaves it not running; start while it is not
\* running sets the flag and returns true when openListenPort succeeds, and
\* returns false with the flag still unset when it fails; and nothing else
\* sets the flag.
C19_StartStopIdempotent ==
    [][ /\ \A t \in Threads :
             /\ (Ends(t, "start") /\ serverStatus_.isRunning_) =>
                   /\ last'.ret = TRUE /\ last'.out = "none"
                   /\ serverStatus_'.isRunning_
                   /\ serverStatus_'.statusText_ = pc[t].previousStatusText_
                   /\ indexMap_' = indexMap_ /\ freeIndexes_' = freeIndexes_
                   /\ files' = files
             /\ (Ends(t, "stop") /\ ~serverStatus_.isRunning_) =>
                   /\ last'.ret = TRUE
                   /\ ~serverStatus_'.isRunning_
             /\ (Ends(t, "start") /\ ~serverStatus_.isRunning_) =>
                   IF last'.out = "accepting"
                   THEN last'.ret = TRUE /\ serverStatus_'.isRunning_
                   ELSE /\ last'.out = "refused"
                        /\ last'.ret = FALSE /\ ~serverStatus_'.isRunning_
        /\ (~serverStatus_.isRunning_ /\ serverStatus_'.isRunning_) =>
              EndsAny("start") /\ last'.out = "accepting"
      ]_vars

\* start returned true without touching the network, the server running
\* and listening as before.
C19_Witness ==
    /\ last.op = "start" /\ last.out = "none" /\ last.ret = TRUE
    /\ serverStatus_.isRunning_
    /\ serverStatus_.statusText_ = "Listening"

\* C20  loadAllDatasets, which the constructor runs, goes through every
\* file of the folder: each file that loads becomes one entry, not dirty,
\* under its file name and with its content, at an index of its own; each
\* file that fails to load appends exactly one error, naming it, and the
\* files after it are still loaded; and the result is true exactly when at
\* least one file loaded.
C20_LoadAll ==
    [][ Loads =>
          LET loaded == last'.attempted \ last'.failed
              log == serverStatus_'.lastErrors_
          IN /\ last'.op = "loadAllDatasets"
             /\ last'.attempted = {f \in FileNames : exists(f)}
             /\ last'.failed \subseteq last'.attempted
             /\ DOMAIN indexMap_' = 0 .. Cardinality(loaded) - 1
             /\ \A f \in loaded : \E i \in DOMAIN indexMap_' :
                   indexMap_'[i] = Item(files[f], f, FALSE)
             /\ \A i \in DOMAIN indexMap_' :
                   indexMap_'[i].fileName_ \in loaded /\ ~indexMap_'[i].dirty_
             /\ freeIndexes_' = {}
             /\ Len(log) = Cardinality(last'.failed)
             /\ \A f \in last'.failed : \E k \in 1 .. Len(log) :
                   log[k] = <<"[Worklist] Failed to load: ", f>>
             /\ last'.ret = (loaded # {})
             /\ files' = files
      ]_vars

\* A load over two files returned true: one file loaded, the other failed
\* and is in the error log.
C20_Witness ==
    /\ last.op = "loadAllDatasets" /\ last.ret = TRUE
    /\ last.failed # {} /\ last.attempted \ last.failed # {}
    /\ Len(serverStatus_.lastErrors_) = 1
    /\ Cardinality(DOMAIN indexMap_) = 1

UniqueNames(map) ==
    \A i, j \in DOMAIN map : i # j => map[i].fileName_ # map[j].fileName_

\* C22 as claimed: no two live entries have the same file name, whatever
\* the sequence of add, remove, clear and load, two add() at one clock
\* reading included; and an entry keeps its file name while it lives.
C22_UniqueFileNames ==
    [][ /\ UniqueNames(indexMap_')
        /\ (alive /\ alive') =>
              \A i \in DOMAIN indexMap_ \cap DOMAIN indexMap_' :
                 indexMap_'[i].fileName_ = indexMap_[i].fileName_
      ]_vars

\* A step of the accept thread running the hook.
HookRuns ==
    alive /\ alive' /\ clock' = clock /\ last'.op = "handleIncomingCommand"

\* C23  Every run of handleIncomingCommand adds exactly one to
\* requestCount_, also without a message; without a message it returns
\* EC_IllegalCall and sends nothing; for a C-FIND request it hands exactly
\* one response to sendDIMSEMessage, with status success, no dataset, and
\* the message id and the class UID of the request; and it never changes
\* the entries, the reuse set, the dirty flags, the files, statusText_ or
\* lastErrors_.
C23_QueryHook ==
    [][ HookRuns =>
          /\ serverStatus_'.requestCount_ = serverStatus_.requestCount_ + 1
          /\ last'.arg = <<>> =>
                last'.ret = "EC_IllegalCall" /\ last'.out = <<>>
          /\ (last'.arg # <<>> /\ last'.arg[1].CommandField = "DIMSE_C_FIND_RQ") =>
                /\ Len(last'.out) = 1
                /\ last'.out[1].CommandField = "DIMSE_C_FIND_RSP"
                /\ last'.out[1].DimseStatus = "STATUS_Success"
                /\ last'.out[1].DataSetType = "DIMSE_DATASET_NULL"
                /\ last'.out[1].MessageIDBeingRespondedTo = last'.arg[1].MessageID
                /\ last'.out[1].AffectedSOPClassUID =
                      last'.arg[1].AffectedSOPClassUID
          /\ indexMap_' = indexMap_
          /\ freeIndexes_' = freeIndexes_
          /\ files' = files
          /\ serverStatus_'.statusText_ = serverStatus_.statusText_
          /\ serverStatus_'.lastErrors_ = serverStatus_.lastErrors_
          /\ serverStatus_'.isRunning_ = serverStatus_.isRunning_
      ]_vars

\* The hook answered the C-FIND request with message id 2 while a facade
\* call of a caller was in progress.
C23_Witness ==
    /\ last.op = "handleIncomingCommand"
    /\ last.arg # <<>>
    /\ last.arg[1].CommandField = "DIMSE_C_FIND_RQ"
    /\ last.arg[1].MessageID = 2
    /\ Len(last.out) = 1
    /\ serverStatus_.requestCount_ = 1
    /\ mutex_ # NoThread

\* The store was emptied on this step: cleared, or the process ended.
Emptied == EndsAny("clearAllDatasets") \/ ~alive'

\* C24  Every live index and every index of the reuse set is smaller than
\* the largest value count() has taken since the store was last constructed
\* or cleared; largestCount is that value: on every step that does not
\* empty the store it is the larger of its old value and the new count().
C24_BelowLargestCount ==
    [][ /\ \A i \in DOMAIN indexMap_' \cup freeIndexes_' : i < largestCount'
        /\ ~Emptied =>
              largestCount' = IF count' > largestCount
                              THEN count' ELSE largestCount
      ]_vars

\* The store holds one entry, at index 2, and recycles 0 and 1, after
\* count() has been 3.
C24_Witness ==
    /\ DOMAIN indexMap_ = {2}
    /\ freeIndexes_ = {0, 1}
    /\ largestCount = 3

\* C25  The live indexes together with the reuse set are exactly the range
\* 0 .. |indexMap_| + |freeIndexes_| - 1; so while the reuse set is empty
\* the live indexes are 0 .. count() - 1 and count() is not a live index.
C25_Contiguous ==
    /\ DOMAIN indexMap_ \cup freeIndexes_ =
          0 .. (Cardinality(DOMAIN indexMap_) + Cardinality(freeIndexes_) - 1)
    /\ freeIndexes_ = {} =>
          /\ DOMAIN indexMap_ = 0 .. (count - 1)
          /\ count \notin DOMAIN indexMap_

\* Entries at 0 and 2 around the recycled index 1, and later a full range
\* again: the add() that took 1 left the reuse set empty.
C25_Witness ==
    /\ DOMAIN indexMap_ = {0, 1, 2}
    /\ freeIndexes_ = {}
    /\ last.op = "addDataset" /\ last.out = 1
    /\ largestCount = 3

\* C26  While no facade call holds the lock, statusText_ is "Listening"
\* when isRunning_ is set and "Idle" when it is not, whatever facade calls
\* came before: a start that failed, start and stop repeated, store calls
\* in between.  (Runs in which a caller uses ScopedStatus directly, with
\* final texts of its own, are not runs of facade calls.)
C26_TextMatchesRunning ==
    (alive /\ mutex_ = NoThread /\ "ScopedStatus" \notin env.ops) =>
        serverStatus_.statusText_ =
            IF serverStatus_.isRunning_ THEN "Listening" ELSE "Idle"

\* A store call has finished while the server was listening.
C26_Witness ==
    /\ mutex_ = NoThread
    /\ "ScopedStatus" \notin env.ops
    /\ serverStatus_.isRunning_
    /\ serverStatus_.statusText_ = "Listening"
    /\ last.op = "addDataset"

\* C27 as claimed: every write of a field of serverStatus_ is a step of a
\* thread that holds mutex_ (it owns it before the step or takes it with
\* the step), so the accept thread never touches a status field while a
\* facade call is inside.
C27_StatusUnderLock ==
    [][ (alive /\ alive' /\ serverStatus_' # serverStatus_) =>
           \E t \in Threads :
              /\ mutex_ = t \/ mutex_' = t
              /\ pc'[t].op # pc[t].op
      ]_vars

\* A call on an entry other than i has finished: a remove or a save of
\* another index, or an add.
OtherEntryCall(i) ==
    \/ EndsAny("addDataset")
    \/ \E j \in Indexes \ {i} :
          EndsAt("deleteDataset", j) \/ EndsAt("saveDataset", j)

\* C28 as claimed: every live entry that is not dirty has its file in the
\* data folder, and no remove, add or save of another entry deletes or
\* rewrites the file of a live entry that is not dirty.
C28_CleanHasFile ==
    [][ /\ alive' =>
              \A i \in DOMAIN indexMap_' :
                 ~indexMap_'[i].dirty_ => files'[indexMap_'[i].fileName_] # NoFile
        /\ \A i \in DOMAIN indexMap_ \ Dirty(indexMap_) :
              OtherEntryCall(i) =>
                 files'[indexMap_[i].fileName_] = files[indexMap_[i].fileName_]
      ]_vars

Acquire(t) == Enter(t) \/ EnterStatus(t) \/ ScopedEnter(t)

\* Thread t runs the call it is inside to its end.
Finish(t) ==
    \/ setTemplateFile(t) \/ addDataset(t) \/ deleteDataset(t)
    \/ getDatasetCount(t) \/ getDataset(t) \/ clearAllDatasets(t)
    \/ start(t) \/ stop(t) \/ getStatus(t) \/ markDatasetDirty(t)
    \/ saveDataset(t) \/ saveDirtyDatasets(t) \/ saveAllDatasets(t)
    \/ ScopedExit(t)

=============================================================================
